---- MODULE Spec2Model ----
(***************************************************************************)
(* A model of the DMarket item filter (src/item_filter.py): name cleaning, *)
(* the record transformer, the candidacy evaluators and the grouping       *)
(* resolver of main(), fed by the aggregated file that storage.py builds.  *)
(*                                                                         *)
(* Strings are sequences of Unicode code points.  Prices are integers in   *)
(* cents (the float parsed from "$1.20" is 120); a quotient of two prices  *)
(* is kept as the pair <<numerator, denominator>> and compared with a      *)
(* threshold by cross-multiplication.  A missing dict key is a missing      *)
(* field of the record (item.get(k) is None exactly when k is absent).     *)
(***************************************************************************)
EXTENDS Integers, Sequences, FiniteSets, Bags, TLC

\* ------------------------------------------------------------------------
\* Generic sequence helpers
\* ------------------------------------------------------------------------

Range(s) == {s[i] : i \in 1..Len(s)}

RECURSIVE SumSeq(_)
SumSeq(s) == IF s = <<>> THEN 0 ELSE Head(s) + SumSeq(Tail(s))

\* Python's str.endswith
EndsWith(s, suf) ==
    /\ Len(s) >= Len(suf)
    /\ SubSeq(s, Len(s) - Len(suf) + 1, Len(s)) = suf

\* ------------------------------------------------------------------------
\* Text: code points used by the names of the model
\* ------------------------------------------------------------------------

SP == <<32>>                         \* " "
OwnedMarker == <<32, 77, 73, 78, 69>>  \* " MINE"
TradeMark == 8482                    \* U+2122, the trademark sign
ArtifactChar == 226                  \* U+00E2, the mis-encoding trigger

\* Python's str.isspace for the code points below U+3001.
IsSpace(c) ==
    \/ c \in 9..13
    \/ c \in 28..32
    \/ c \in {133, 160, 5760, 8232, 8233, 8239, 8287, 12288}
    \/ c \in 8192..8202

\* name.encode("latin1"): succeeds exactly when every code point is below 256,
\* and then the bytes are the code points.
Latin1Encodable(name) == \A i \in 1..Len(name) : name[i] < 256

IsCont(b) == b \in 128..191

\* bytes.decode("utf-8") (strict): [ok |-> FALSE] when the bytes are not
\* well-formed UTF-8, else the decoded code points.
RECURSIVE Utf8Decode(_)
Utf8Decode(b) ==
    IF b = <<>> THEN [ok |-> TRUE, s |-> <<>>]
    ELSE LET b1 == b[1]
             n  == IF b1 < 128 THEN 1
                   ELSE IF b1 \in 194..223 THEN 2
                   ELSE IF b1 \in 224..239 THEN 3
                   ELSE IF b1 \in 240..244 THEN 4
                   ELSE 0
             wellFormed ==
                 /\ n > 0
                 /\ Len(b) >= n
                 /\ \A i \in 2..n : IsCont(b[i])
                 /\ (b1 = 224 => b[2] >= 160)
                 /\ (b1 = 237 => b[2] <= 159)
                 /\ (b1 = 240 => b[2] >= 144)
                 /\ (b1 = 244 => b[2] <= 143)
             cp == IF n = 1 THEN b1
                   ELSE IF n = 2 THEN (b1 % 32) * 64 + (b[2] % 64)
                   ELSE IF n = 3 THEN (b1 % 16) * 4096 + (b[2] % 64) * 64 + (b[3] % 64)
                   ELSE (b1 % 8) * 262144 + (b[2] % 64) * 4096
                        + (b[3] % 64) * 64 + (b[4] % 64)
         IN  IF ~wellFormed THEN [ok |-> FALSE, s |-> <<>>]
             ELSE LET rest == Utf8Decode(SubSeq(b, n + 1, Len(b)))
                  IN  IF rest.ok THEN [ok |-> TRUE, s |-> <<cp>> \o rest.s]
                      ELSE rest

\* name.replace("(tm)", "")
RECURSIVE RemoveChar(_, _)
RemoveChar(s, c) ==
    IF s = <<>> THEN <<>>
    ELSE IF Head(s) = c THEN RemoveChar(Tail(s), c)
    ELSE <<Head(s)>> \o RemoveChar(Tail(s), c)

\* unicodedata.normalize("NFKC", s) on the code points of the model:
\* compatibility decomposition (NBSP -> space, trademark -> "TM"), then
\* canonical composition of a base letter with U+0302 (combining circumflex).


Decompose(c) ==
    IF c = 160 THEN <<32>>
    ELSE IF c = TradeMark THEN <<84, 77>>
    ELSE IF c = 226 THEN <<97, 770>>
    ELSE IF c = 194 THEN <<65, 770>>
    ELSE <<c>>

RECURSIVE DecomposeAll(_)
DecomposeAll(s) ==
    IF s = <<>> THEN <<>> ELSE Decompose(Head(s)) \o DecomposeAll(Tail(s))

\* the precomposed letter of base + U+0302, or 0 when there is none
Composed(base) ==
    IF base = 97 THEN 226
    ELSE IF base = 65 THEN 194
    ELSE IF base = 69 THEN 202
    ELSE IF base = 73 THEN 206
    ELSE IF base = 89 THEN 374
    ELSE 0

RECURSIVE ComposeAll(_)
ComposeAll(s) ==
    IF Len(s) < 2 THEN s
    ELSE IF s[2] = 770 /\ Composed(s[1]) # 0
         THEN ComposeAll(<<Composed(s[1])>> \o SubSeq(s, 3, Len(s)))
         ELSE <<s[1]>> \o ComposeAll(Tail(s))

NFKC(s) == ComposeAll(DecomposeAll(s))

\* s.split(): the maximal runs of non-whitespace
RECURSIVE SplitWs(_, _)
SplitWs(s, cur) ==
    IF s = <<>> THEN (IF cur = <<>> THEN <<>> ELSE <<cur>>)
    ELSE IF IsSpace(Head(s))
         THEN (IF cur = <<>> THEN <<>> ELSE <<cur>>) \o SplitWs(Tail(s), <<>>)
         ELSE SplitWs(Tail(s), Append(cur, Head(s)))

\* " ".join(words)
RECURSIVE JoinSp(_)
JoinSp(words) ==
    IF words = <<>> THEN <<>>
    ELSE IF Len(words) = 1 THEN words[1]
    ELSE words[1] \o SP \o JoinSp(Tail(words))

\* s.strip()
Strip(s) ==
    LET idx == {i \in 1..Len(s) : ~IsSpace(s[i])}
    IN  IF idx = {} THEN <<>>
        ELSE SubSeq(s, CHOOSE i \in idx : \A j \in idx : i <= j,
                       CHOOSE i \in idx : \A j \in idx : i >= j)

\* mutant: the Latin-1 to UTF-8 repair is missing
clean_name_NoRedecode(name) ==
    IF name = <<>> THEN <<>>
    ELSE JoinSp(SplitWs(NFKC(RemoveChar(name, TradeMark)), <<>>))

\* mutant: a failed re-decoding reaches the outer handler, which returns
\* the name as it came
clean_name_FailRaw(name) ==
    IF name = <<>> THEN <<>>
    ELSE LET dec == Utf8Decode(name)
         IN  IF ArtifactChar \in Range(name) /\ ~(Latin1Encodable(name) /\ dec.ok)
             THEN name
             ELSE JoinSp(SplitWs(NFKC(RemoveChar(
                      IF ArtifactChar \in Range(name) THEN dec.s ELSE name,
                      TradeMark)), <<>>))

clean_name(name) ==
    IF name = <<>> THEN <<>>
    ELSE LET dec == Utf8Decode(name)
             name_fixed ==
                 IF ArtifactChar \in Range(name)
                 THEN (IF Latin1Encodable(name) /\ dec.ok THEN dec.s ELSE name)
                 ELSE name
         IN  JoinSp(SplitWs(NFKC(RemoveChar(name_fixed, TradeMark)), <<>>))

base_name(name) ==
    IF EndsWith(name, OwnedMarker)
    THEN Strip(SubSeq(name, 1, Len(name) - Len(OwnedMarker)))
    ELSE name

\* ------------------------------------------------------------------------
\* Python dicts: a record whose domain holds the keys that are present
\* ------------------------------------------------------------------------

HasKey(d, k) == k \in DOMAIN d

\* d.get(k, default)
Get(d, k, default) == IF HasKey(d, k) THEN d[k] ELSE default

\* ------------------------------------------------------------------------
\* Numbers.  A price is a number of cents; a quotient a / b is <<a, b>>
\* with b > 0.  Thresholds are in hundredths.  The comparisons below are
\* exact; the prices of the model are chosen so that the rounded IEEE-754
\* quotient compares with the thresholds the same way.
\* ------------------------------------------------------------------------

MIN_SALES_NORMAL == 15
MIN_SALES_EXCEPTION == 7
PRICE_CONSISTENCY_THRESHOLD_STRICT == 120
PRICE_CONSISTENCY_THRESHOLD_LOW_PRICE == 420
PROFIT_MARGIN_NORMAL == 115
PROFIT_MARGIN_EXCEPTION == 130

\* q >= h/100, q <= h/100 for a quotient q = <<a, b>>, b > 0
QuotGeq(q, h) == q[1] * 100 >= h * q[2]
QuotLeq(q, h) == q[1] * 100 <= h * q[2]

\* sorted(xs) and sorted(xs, reverse=True): stable insertion sort
RECURSIVE InsertAsc(_, _)
InsertAsc(v, s) ==
    IF s = <<>> THEN <<v>>
    ELSE IF v < Head(s) THEN <<v>> \o s
    ELSE <<Head(s)>> \o InsertAsc(v, Tail(s))

RECURSIVE SortedAsc(_)
SortedAsc(s) ==
    IF s = <<>> THEN <<>>
    ELSE InsertAsc(s[Len(s)], SortedAsc(SubSeq(s, 1, Len(s) - 1)))

RECURSIVE InsertDesc(_, _)
InsertDesc(v, s) ==
    IF s = <<>> THEN <<v>>
    ELSE IF v > Head(s) THEN <<v>> \o s
    ELSE <<Head(s)>> \o InsertDesc(v, Tail(s))

RECURSIVE SortedDesc(_)
SortedDesc(s) ==
    IF s = <<>> THEN <<>>
    ELSE InsertDesc(s[Len(s)], SortedDesc(SubSeq(s, 1, Len(s) - 1)))

\* xs[:n]
Take(s, n) == SubSeq(s, 1, IF Len(s) < n THEN Len(s) ELSE n)

MaxOf(s) == CHOOSE v \in Range(s) : \A w \in Range(s) : v >= w
MinOf(s) == CHOOSE v \in Range(s) : \A w \in Range(s) : v <= w

\* ------------------------------------------------------------------------
\* Price strings: float(s.replace("$", "").strip())
\* A price string of the model is made of digits, ".", "$", ",", "x" and
\* spaces, with at most two digits after the point.
\* ------------------------------------------------------------------------

IsDigit(c) == c \in 48..57

RECURSIVE DigitsValue(_)
DigitsValue(s) ==
    IF s = <<>> THEN 0
    ELSE DigitsValue(SubSeq(s, 1, Len(s) - 1)) * 10 + (s[Len(s)] - 48)

\* float(s): [ok |-> FALSE] stands for ValueError, else v is the value in cents
ParseFloat(s) ==
    LET t    == Strip(s)
        dots == {i \in 1..Len(t) : t[i] = 46}
        dot  == IF dots = {} THEN Len(t) + 1 ELSE CHOOSE i \in dots : TRUE
        ip   == SubSeq(t, 1, dot - 1)
        fp   == SubSeq(t, dot + 1, Len(t))
        fpad == IF Len(fp) = 0 THEN <<48, 48>>
                ELSE IF Len(fp) = 1 THEN fp \o <<48>> ELSE fp
        good == /\ Cardinality(dots) <= 1
                /\ \A i \in 1..Len(ip) : IsDigit(ip[i])
                /\ \A i \in 1..Len(fp) : IsDigit(fp[i])
                /\ Len(ip) + Len(fp) >= 1
                /\ Len(fp) <= 2
    IN  IF good THEN [ok |-> TRUE, v |-> DigitsValue(ip) * 100 + DigitsValue(fpad)]
        ELSE [ok |-> FALSE, v |-> 0]

\* float(e.get("price", "0").replace("$", "").strip())
ParsePrice(s) == ParseFloat(Strip(RemoveChar(s, 36)))

\* ------------------------------------------------------------------------
\* Dates.  A date string is [fmt, t]: the instant t (in hours) written in
\* the format fmt; parse_date knows four formats.
\* ------------------------------------------------------------------------

DateFormats == {"%Y-%m-%d %H:%M:%S", "%Y-%m-%d",
                "%b %d, %Y, %I:%M %p", "%b %d, %Y at %I:%M %p"}

NoDate == [fmt |-> "", t |-> 0]

\* parse_date: [ok |-> FALSE] stands for the None it returns
parse_date(date_str) ==
    IF date_str.fmt \in DateFormats
    THEN [ok |-> TRUE, t |-> date_str.t]
    ELSE [ok |-> FALSE, t |-> 0]

\* timedelta(days=30), in hours
Window == 30 * 24


\* ------------------------------------------------------------------------
\* transform_item
\* ------------------------------------------------------------------------

\* Python truthiness of a string / of a date string
Truthy(s) == s # <<>>
TruthyDate(d) == d.fmt # ""

\* the date_time of a sale event: the field itself, else "date time", else date
ResolveDateTime(sh) ==
    LET date_time  == Get(sh, "date_time", NoDate)
        date_value == Get(sh, "date", NoDate)
        time_value == Get(sh, "time", NoDate)
    IN  IF TruthyDate(date_time) THEN date_time
        ELSE IF TruthyDate(date_value) /\ TruthyDate(time_value)
             THEN [fmt |-> date_value.fmt \o " " \o time_value.fmt,
                   t   |-> date_value.t + time_value.t]
             ELSE date_value

\* mutant: the window test is missing, the whole history is counted
RECURSIVE RecentSales_NoWindow(_, _)
RecentSales_NoWindow(sales_history, now) ==
    IF sales_history = <<>> THEN <<>>
    ELSE LET sh        == Head(sales_history)
             rest      == RecentSales_NoWindow(Tail(sales_history), now)
             raw_price == Get(sh, "price", <<>>)
             price     == ParsePrice(raw_price)
             date_time == ResolveDateTime(sh)
             sale_date == parse_date(date_time)
         IN  IF ~Truthy(raw_price) THEN rest
             ELSE IF ~price.ok THEN rest
             ELSE IF ~sale_date.ok THEN rest
             ELSE <<[price     |-> price.v,
                     date_time |-> date_time,
                     operation |-> Get(sh, "operation", "None")]>> \o rest

\* mutant: an event that does not parse ends the loop (break for continue)
RECURSIVE RecentSales_Break(_, _)
RecentSales_Break(sales_history, now) ==
    IF sales_history = <<>> THEN <<>>
    ELSE LET sh        == Head(sales_history)
             rest      == RecentSales_Break(Tail(sales_history), now)
             raw_price == Get(sh, "price", <<>>)
             price     == ParsePrice(raw_price)
             date_time == ResolveDateTime(sh)
             sale_date == parse_date(date_time)
         IN  IF ~Truthy(raw_price) THEN rest
             ELSE IF ~price.ok THEN <<>>
             ELSE IF ~sale_date.ok THEN <<>>
             ELSE IF sale_date.t >= now - Window
                  THEN <<[price     |-> price.v,
                          date_time |-> date_time,
                          operation |-> Get(sh, "operation", "None")]>> \o rest
                  ELSE rest

\* the loop over sales_history: the sale_info of every event that is kept
RECURSIVE RecentSales(_, _)
RecentSales(sales_history, now) ==
    IF sales_history = <<>> THEN <<>>
    ELSE LET sh        == Head(sales_history)
             rest      == RecentSales(Tail(sales_history), now)
             raw_price == Get(sh, "price", <<>>)
             price     == ParsePrice(raw_price)
             date_time == ResolveDateTime(sh)
             sale_date == parse_date(date_time)
         IN  IF ~Truthy(raw_price) THEN rest
             ELSE IF ~price.ok THEN rest
             ELSE IF ~sale_date.ok THEN rest
             ELSE IF sale_date.t >= now - Window
                  THEN <<[price     |-> price.v,
                          date_time |-> date_time,
                          operation |-> Get(sh, "operation", "None")]>> \o rest
                  ELSE rest

\* [float(e["price"]...) for e in entries if e.get("price")]: ok is FALSE
\* when one float() raises, which ends the comprehension
RECURSIVE full_price_list(_)
full_price_list(entries) ==
    IF entries = <<>> THEN [ok |-> TRUE, list |-> <<>>]
    ELSE LET raw_price == Get(Head(entries), "price", <<>>)
             price     == ParsePrice(raw_price)
             rest      == full_price_list(Tail(entries))
         IN  IF ~Truthy(raw_price) THEN rest
             ELSE IF ~price.ok THEN [ok |-> FALSE, list |-> <<>>]
             ELSE [ok |-> rest.ok, list |-> <<price.v>> \o rest.list]

\* statistics.mean and statistics.variance as exact quotients
Mean(xs) == <<SumSeq(xs), Len(xs)>>
RECURSIVE SumSquares(_)
SumSquares(xs) == IF xs = <<>> THEN 0 ELSE Head(xs) * Head(xs) + SumSquares(Tail(xs))

Variance(xs) ==
    LET n == Len(xs)
    IN  <<n * SumSquares(xs) - SumSeq(xs) * SumSeq(xs), n * (n - 1)>>

\* [sale["price"] for sale in recent_sales_data]
RECURSIVE PricesOf(_)
PricesOf(sales) ==
    IF sales = <<>> THEN <<>> ELSE <<Head(sales).price>> \o PricesOf(Tail(sales))

\* transform_item(raw_item), with datetime.now() = now, in the order of its
\* statements.  An exception inside the try block ends it there: the record
\* returned keeps the keys set so far.

\* the statistics of the recent sale prices (the last statements of the try)
StatsStage(transformed) ==
    LET recent_prices == PricesOf(transformed.recent_sales_prices)
    IN  IF recent_prices # <<>>
        THEN transformed @@
             [average_recent_sale_price |-> Mean(recent_prices),
              price_variance |-> IF Len(recent_prices) > 1
                                 THEN Variance(recent_prices) ELSE <<0, 1>>]
        ELSE transformed @@
             [average_recent_sale_price |-> <<0, 1>>, price_variance |-> <<0, 1>>]

\* mutant: a missing price defaults to 1.00
ItemOrCent_One(xs, i) == IF Len(xs) >= i THEN xs[i] ELSE 100

\* xs[i] if len(xs) >= i + 1 else 0.01 (one cent)
ItemOrCent(xs, i) == IF Len(xs) >= i THEN xs[i] ELSE 1

\* margin_pair2 = offer2 / target2: ZeroDivisionError when target2 is 0
Pair2Stage(transformed) ==
    LET offer2  == ItemOrCent(transformed.offer_prices_list, 2)
        target2 == ItemOrCent(transformed.target_price_list, 2)
    IN  IF target2 = 0 THEN transformed
        ELSE StatsStage(transformed @@ [profit_margin_pair2 |-> <<offer2, target2>>])

\* margin_pair1 = offer1 / target1: ZeroDivisionError when target1 is 0
Pair1Stage(transformed) ==
    LET offer1  == ItemOrCent(transformed.offer_prices_list, 1)
        target1 == ItemOrCent(transformed.target_price_list, 1)
    IN  IF target1 = 0 THEN transformed
        ELSE Pair2Stage(transformed @@ [profit_margin_pair1 |-> <<offer1, target1>>])

\* the target prices: ValueError when a price string does not parse
TargetStage(transformed, targets) ==
    IF ~targets.ok THEN transformed
    ELSE Pair1Stage(transformed @@
             [target_price_list          |-> Take(SortedDesc(targets.list), 3),
              target_price_list_quantity |-> Len(Take(targets.list, 3))])

\* the offer prices: ValueError when a price string does not parse
OfferStage(transformed, offers, raw_item) ==
    IF ~offers.ok THEN transformed
    ELSE TargetStage(transformed @@
             [offer_prices_list     |-> Take(SortedAsc(offers.list), 3),
              offer_prices_quantity |-> Len(Take(offers.list, 3))],
             full_price_list(Get(raw_item, "target_prices", <<>>)))

\* mutant: sales counts every event of the history
SalesStage_CountAll(transformed, recent_sales_data, raw_item) ==
    OfferStage(transformed @@ [sales |-> Len(Get(raw_item, "sales_history", <<>>)),
                               recent_sales_prices |-> recent_sales_data],
               full_price_list(Get(raw_item, "offer_prices", <<>>)),
               raw_item)

\* the recent sales
SalesStage(transformed, recent_sales_data, raw_item) ==
    OfferStage(transformed @@ [sales               |-> Len(recent_sales_data),
                               recent_sales_prices |-> recent_sales_data],
               full_price_list(Get(raw_item, "offer_prices", <<>>)),
               raw_item)

transform_item(raw_item, now) ==
    SalesStage([name |-> clean_name(Get(raw_item, "name", <<>>)),
                wear |-> Get(raw_item, "wear", "")],
               RecentSales(Get(raw_item, "sales_history", <<>>), now),
               raw_item)

\* ------------------------------------------------------------------------
\* The evaluators
\* ------------------------------------------------------------------------

\* mutant: a mean of exactly 5.0 takes the low-price threshold
is_price_consistent_MeanLeq(prices) ==
    IF prices = <<>> THEN FALSE
    ELSE IF MinOf(prices) = 0 THEN FALSE
    ELSE LET ratio     == <<MaxOf(prices), MinOf(prices)>>
             avg_price == Mean(prices)
             threshold == IF avg_price[1] <= 500 * avg_price[2]
                          THEN PRICE_CONSISTENCY_THRESHOLD_LOW_PRICE
                          ELSE PRICE_CONSISTENCY_THRESHOLD_STRICT
         IN  QuotLeq(ratio, threshold)

is_price_consistent(prices) ==
    IF prices = <<>> THEN FALSE
    ELSE IF MinOf(prices) = 0 THEN FALSE
    ELSE LET ratio     == <<MaxOf(prices), MinOf(prices)>>
             avg_price == Mean(prices)
             threshold == IF avg_price[1] < 500 * avg_price[2]
                          THEN PRICE_CONSISTENCY_THRESHOLD_LOW_PRICE
                          ELSE PRICE_CONSISTENCY_THRESHOLD_STRICT
         IN  QuotLeq(ratio, threshold)

\* mutant: the sales cut is missing
is_good_candidate_NoSalesCut(item) ==
    IF \/ Get(item, "offer_prices_list", <<>>) = <<>>
       \/ Get(item, "target_price_list", <<>>) = <<>>
    THEN FALSE
    ELSE TRUE

\* mutant: only the offer list is looked at
is_good_candidate_OffersOnly(item) ==
    LET sales == Get(item, "sales", 0)
    IN  IF sales < MIN_SALES_EXCEPTION THEN FALSE
        ELSE IF Get(item, "offer_prices_list", <<>>) = <<>> THEN FALSE
        ELSE TRUE

\* mutant: price consistency gates the verdict
is_good_candidate_Gated(item) ==
    LET sales == Get(item, "sales", 0)
    IN  IF sales < MIN_SALES_EXCEPTION THEN FALSE
        ELSE IF \/ Get(item, "offer_prices_list", <<>>) = <<>>
                \/ Get(item, "target_price_list", <<>>) = <<>>
             THEN FALSE
        ELSE is_price_consistent(PricesOf(Get(item, "recent_sales_prices", <<>>)))

is_good_candidate(item) ==
    LET sales == Get(item, "sales", 0)
    IN  IF sales < MIN_SALES_EXCEPTION THEN FALSE
        ELSE IF \/ Get(item, "offer_prices_list", <<>>) = <<>>
                \/ Get(item, "target_price_list", <<>>) = <<>>
             THEN FALSE
        ELSE TRUE

\* mutant: a margin equal to the factor is not enough
passes_profit_margin_Strict(item) ==
    LET sales  == Get(item, "sales", 0)
        factor == IF sales >= MIN_SALES_NORMAL
                  THEN PROFIT_MARGIN_NORMAL ELSE PROFIT_MARGIN_EXCEPTION
    IN  IF sales < MIN_SALES_EXCEPTION THEN FALSE
        ELSE \/ /\ HasKey(item, "profit_margin_pair1")
                /\ ~QuotLeq(item.profit_margin_pair1, factor)
             \/ /\ HasKey(item, "profit_margin_pair2")
                /\ ~QuotLeq(item.profit_margin_pair2, factor)

passes_profit_margin(item) ==
    LET sales  == Get(item, "sales", 0)
        factor == IF sales >= MIN_SALES_NORMAL
                  THEN PROFIT_MARGIN_NORMAL ELSE PROFIT_MARGIN_EXCEPTION
    IN  IF sales < MIN_SALES_EXCEPTION THEN FALSE
        ELSE \/ /\ HasKey(item, "profit_margin_pair1")
                /\ QuotGeq(item.profit_margin_pair1, factor)
             \/ /\ HasKey(item, "profit_margin_pair2")
                /\ QuotGeq(item.profit_margin_pair2, factor)


\* ------------------------------------------------------------------------
\* The grouping resolver of main()
\* ------------------------------------------------------------------------

\* the key main() groups an item under
GroupKey(item) == base_name(clean_name(Get(item, "name", <<>>)))

IsMine(item) == EndsWith(Get(item, "name", <<>>), OwnedMarker)

\* mutant: the entry carries the base name the item was grouped under
Projection_BaseName(item) ==
    [name |-> base_name(clean_name(Get(item, "name", <<>>))),
     wear |-> Get(item, "wear", "None")]

\* the record main() appends to good_items / bad_items
Projection(item) == [name |-> Get(item, "name", <<>>), wear |-> Get(item, "wear", "None")]

\* the keys of groups, in insertion order (the order of first appearance)
RECURSIVE GroupKeys(_, _)
GroupKeys(items, seen) ==
    IF items = <<>> THEN <<>>
    ELSE LET k == GroupKey(Head(items))
         IN  IF k \in seen THEN GroupKeys(Tail(items), seen)
             ELSE <<k>> \o GroupKeys(Tail(items), seen \cup {k})

\* groups[base]: the items of the key, in input order
RECURSIVE GroupOf(_, _)
GroupOf(items, base) ==
    IF items = <<>> THEN <<>>
    ELSE IF GroupKey(Head(items)) = base
         THEN <<Head(items)>> \o GroupOf(Tail(items), base)
         ELSE GroupOf(Tail(items), base)

RECURSIVE SelectMine(_, _)
SelectMine(group, mine) ==
    IF group = <<>> THEN <<>>
    ELSE IF IsMine(Head(group)) = mine
         THEN <<Head(group)>> \o SelectMine(Tail(group), mine)
         ELSE SelectMine(Tail(group), mine)

IsCandidate(item) == is_good_candidate(item) \/ passes_profit_margin(item)

\* mutant: the loop keeps the last qualifying record instead of breaking
FirstCandidate_NoBreak(non_mine_items) ==
    LET hits == {i \in 1..Len(non_mine_items) : IsCandidate(non_mine_items[i])}
    IN  IF hits = {} THEN 0 ELSE CHOOSE i \in hits : \A j \in hits : i >= j

\* the loop over non_mine_items: the position of the first candidate, or 0
FirstCandidate(non_mine_items) ==
    LET hits == {i \in 1..Len(non_mine_items) : IsCandidate(non_mine_items[i])}
    IN  IF hits = {} THEN 0 ELSE CHOOSE i \in hits : \A j \in hits : i <= j

RECURSIVE ProjectAll(_)
ProjectAll(group) ==
    IF group = <<>> THEN <<>> ELSE <<Projection(Head(group))>> \o ProjectAll(Tail(group))

RECURSIVE SelectCandidates(_, _)
SelectCandidates(group, wanted) ==
    IF group = <<>> THEN <<>>
    ELSE IF IsCandidate(Head(group)) = wanted
         THEN <<Head(group)>> \o SelectCandidates(Tail(group), wanted)
         ELSE SelectCandidates(Tail(group), wanted)

\* mutant: an owned record that qualifies on its own is not rejected
ResolveGroup_KeepQualifyingMine(group) ==
    LET mine_items     == SelectMine(group, TRUE)
        non_mine_items == SelectMine(group, FALSE)
        c              == FirstCandidate(non_mine_items)
    IN  IF c # 0
        THEN [good |-> <<Projection(non_mine_items[c])>>,
              bad  |-> ProjectAll(SelectCandidates(mine_items, FALSE))]
        ELSE [good |-> <<>>, bad |-> ProjectAll(group)]

\* mutant: the winner is looked for in the whole group, owned records included
ResolveGroup_AnyWinner(group) ==
    LET mine_items == SelectMine(group, TRUE)
        c          == FirstCandidate(group)
    IN  IF c # 0
        THEN [good |-> <<Projection(group[c])>>, bad |-> ProjectAll(mine_items)]
        ELSE [good |-> <<>>, bad |-> ProjectAll(group)]

\* mutant: every qualifying regular record is appended to good
ResolveGroup_AllWinners(group) ==
    LET mine_items     == SelectMine(group, TRUE)
        non_mine_items == SelectMine(group, FALSE)
        winners        == SelectCandidates(non_mine_items, TRUE)
    IN  IF winners # <<>>
        THEN [good |-> ProjectAll(winners), bad |-> ProjectAll(mine_items)]
        ELSE [good |-> <<>>, bad |-> ProjectAll(group)]

\* mutant: the continue is missing, so the owned records of a group without
\* a winner are appended to bad a second time
ResolveGroup_NoContinue(group) ==
    LET mine_items     == SelectMine(group, TRUE)
        non_mine_items == SelectMine(group, FALSE)
        c              == FirstCandidate(non_mine_items)
    IN  IF c # 0
        THEN [good |-> <<Projection(non_mine_items[c])>>,
              bad  |-> ProjectAll(mine_items)]
        ELSE [good |-> <<>>, bad |-> ProjectAll(group) \o ProjectAll(mine_items)]

\* one iteration of the loop over groups: what it appends to good and to bad
ResolveGroup(group) ==
    LET mine_items     == SelectMine(group, TRUE)
        non_mine_items == SelectMine(group, FALSE)
        c              == FirstCandidate(non_mine_items)
    IN  IF c # 0
        THEN [good |-> <<Projection(non_mine_items[c])>>,
              bad  |-> ProjectAll(mine_items)]
        ELSE [good |-> <<>>, bad |-> ProjectAll(group)]

RECURSIVE ResolveGroups(_, _)
ResolveGroups(items, keys) ==
    IF keys = <<>> THEN [good |-> <<>>, bad |-> <<>>]
    ELSE LET r    == ResolveGroup(GroupOf(items, Head(keys)))
             rest == ResolveGroups(items, Tail(keys))
         IN  [good |-> r.good \o rest.good, bad |-> r.bad \o rest.bad]

Resolve(items) == ResolveGroups(items, GroupKeys(items, {}))

\* load_items: the transformed records of the aggregated file, [] on failure
RECURSIVE TransformAll(_, _)
TransformAll(raw_items, now) ==
    IF raw_items = <<>> THEN <<>>
    ELSE <<transform_item(Head(raw_items), now)>> \o TransformAll(Tail(raw_items), now)

load_items(file, readable, now) ==
    IF readable THEN TransformAll(file, now) ELSE <<>>

\* how a call of save_items can go: the dump completes, open() fails, or
\* the dump fails after open() has truncated the file and kept items of the
\* list have reached it
SaveOutcomes(items) ==
    {[kind |-> "ok", kept |-> Len(items)], [kind |-> "open_failed", kept |-> 0]}
    \cup {[kind |-> "write_failed", kept |-> k] :
              k \in 0..(IF Len(items) = 0 THEN 0 ELSE Len(items) - 1)}

\* save_items: the file after the call.  Every failure is caught and logged.
save_items(items, file, outcome) ==
    IF outcome.kind = "ok" THEN [written |-> TRUE, content |-> items]
    ELSE IF outcome.kind = "open_failed" THEN file
    ELSE [written |-> FALSE, content |-> SubSeq(items, 1, outcome.kept)]


\* ------------------------------------------------------------------------
\* State
\* ------------------------------------------------------------------------

VARIABLES
    aggregated,   \* data/aggregated/items_all.json: the raw items saved so far
    pc,           \* "collect" while items are collected, "done" after main()
    items,        \* main(): what load_items returned
    good_items,   \* main(): the list built for good_items.json
    bad_items,    \* main(): the list built for bad_items.json
    good_file,    \* data/aggregated/good_items.json
    bad_file,     \* data/aggregated/bad_items.json
    io,           \* main(): how the read and the two writes went
    returned,     \* what save_items and main() handed back to their callers
    rec,          \* the record handed to an evaluator
    alt,          \* a second list of recent sales for the same record
    verdict,      \* the evaluator called on rec and what it returned
    raw,          \* the argument of transform_item / clean_name
    clock,        \* datetime.now() during transform_item
    out,          \* what the function returned for raw
    processed_items,  \* item_fetcher.processed_items: the keys seen so far
    master_items,     \* main.py: the page elements found so far, in order
    processed_count,  \* main.py: the loop's count of items saved
    total_index,      \* main.py: the number of master items visited
    save_calls,       \* the items handed to save_item_data, in call order
    last              \* the latest call of fetch_item_data and how it ended

vars == <<aggregated, pc, items, good_items, bad_items, good_file, bad_file,
          io, returned, rec, alt, verdict, raw, clock, out,
          processed_items, master_items, processed_count, total_index,
          save_calls, last>>

pipelineVars == <<aggregated, pc, items, good_items, bad_items, good_file, bad_file,
                  io, returned>>
evalVars == <<rec, alt, verdict>>
funVars == <<raw, clock, out>>
collectVars == <<processed_items, master_items, processed_count, total_index,
                 save_calls, last>>

\* the key of a call that ended before the title was read
NoKey == <<<<>>, <<>>>>

\* no call of fetch_item_data yet
NoCall == [index |-> 0, key |-> NoKey, at |-> "none", result |-> "none"]

\* the collection loop has not run
NotCollecting ==
    /\ processed_items = {}
    /\ master_items = <<>>
    /\ processed_count = 0
    /\ total_index = 0
    /\ save_calls = <<>>
    /\ last = NoCall

\* ------------------------------------------------------------------------
\* Bounds and inputs of the batch pipeline
\* ------------------------------------------------------------------------

MaxItems == 3

NameX == <<88>>                          \* "X"
NameY == <<89>>                          \* "Y"
NameXMine == <<88, 8482>> \o OwnedMarker \* "X(tm) MINE"
Wears == {"Factory New", "Well-Worn"}

Dollar(digits) == <<36>> \o digits       \* "$" + digits
P100 == Dollar(<<49, 46, 48, 48>>)       \* "$1.00"
P090 == Dollar(<<48, 46, 57, 48>>)       \* "$0.90"

NowValues == {Window + 48}

SaleEvent(price, t) ==
    [price     |-> price,
     operation |-> "Offer",
     date_time |-> [fmt |-> "%b %d, %Y, %I:%M %p", t |-> t]]

OrderEntry(price) == [price |-> price, quantity |-> <<49>>]

\* a sales history of nRecent events inside the window, then nOld outside it
RECURSIVE History(_, _, _)
History(nRecent, nOld, now) ==
    IF nRecent > 0
    THEN <<SaleEvent(P100, now - nRecent)>> \o History(nRecent - 1, nOld, now)
    ELSE IF nOld > 0
    THEN <<SaleEvent(P100, now - Window - 1)>> \o History(0, nOld - 1, now)
    ELSE <<>>

\* what the collector saw of an item: enough sales and both order tables,
ProfileBoth(now) ==
    [sales_history |-> History(MIN_SALES_EXCEPTION, 0, now),
     offer_prices  |-> <<OrderEntry(P100)>>,
     target_prices |-> <<OrderEntry(P090)>>]

\* enough sales and no target table,
ProfileNoTargets(now) ==
    [sales_history |-> History(MIN_SALES_EXCEPTION, 0, now),
     offer_prices  |-> <<OrderEntry(P100)>>,
     target_prices |-> <<>>]

\* one sale too few inside the window
ProfileFewSales(now) ==
    [sales_history |-> History(MIN_SALES_EXCEPTION - 1, 1, now),
     offer_prices  |-> <<OrderEntry(P100)>>,
     target_prices |-> <<OrderEntry(P090)>>]

Profiles(now) == {ProfileBoth(now), ProfileNoTargets(now), ProfileFewSales(now)}

\* the item "X" in every profile and, in a second wear, with both tables; its
\* owned variant "X(tm) MINE", qualifying and not; and a second item "Y"
RawItems(now) ==
    { [name |-> NameX, wear |-> "Factory New"] @@ p : p \in Profiles(now) }
    \cup
    { [name |-> NameX, wear |-> w] @@ ProfileBoth(now) : w \in Wears }
    \cup
    { [name |-> NameXMine, wear |-> "Factory New"] @@ p :
          p \in {ProfileBoth(now), ProfileFewSales(now)} }
    \cup
    { [name |-> NameY, wear |-> "Factory New"] @@ ProfileBoth(now) }

NoFile == [written |-> FALSE, content |-> <<>>]
NoIo == [load |-> "none", good |-> "none", bad |-> "none"]
NothingReturned == [save_good |-> "pending", save_bad |-> "pending", main |-> "pending"]
NoVerdict == [fn |-> "none", val |-> FALSE, alt_val |-> FALSE]
NoRecord == [name |-> <<>>]
NoInput == [name |-> <<>>]
NoOutput == [name |-> <<>>]

\* ------------------------------------------------------------------------
\* The batch pipeline: storage.save_item_data, then item_filter.main
\* ------------------------------------------------------------------------

Init ==
    /\ aggregated = <<>>
    /\ pc = "collect"
    /\ items = <<>>
    /\ good_items = <<>>
    /\ bad_items = <<>>
    /\ good_file = NoFile
    /\ bad_file = NoFile
    /\ io = NoIo
    /\ returned = NothingReturned
    /\ NotCollecting
    /\ rec = NoRecord
    /\ alt = <<>>
    /\ verdict = NoVerdict
    /\ raw = NoInput
    /\ clock = 0
    /\ out = NoOutput

\* storage.save_item_data: append the item to the aggregated file
SaveItemData(item_data) ==
    /\ pc = "collect"
    /\ Len(aggregated) < MaxItems
    /\ aggregated' = Append(aggregated, item_data)
    /\ UNCHANGED <<pc, items, good_items, bad_items, good_file, bad_file, io, returned>>
    /\ UNCHANGED evalVars
    /\ UNCHANGED collectVars
    /\ UNCHANGED funVars

\* mutant: load_items lets the read error through, main() ends with it
FilterMain_LoadRaises(now) ==
    /\ pc = "collect"
    /\ \E readable \in BOOLEAN :
         \E loaded \in {load_items(aggregated, readable, now)} :
           \E r \in {Resolve(loaded)} :
             /\ items' = loaded
             /\ good_items' = r.good
             /\ bad_items' = r.bad
             /\ IF readable
                THEN \E goodOutcome \in SaveOutcomes(r.good) :
                      \E badOutcome \in SaveOutcomes(r.bad) :
                        /\ good_file' = save_items(r.good, good_file, goodOutcome)
                        /\ bad_file' = save_items(r.bad, bad_file, badOutcome)
                        /\ io' = [load |-> "ok",
                                  good |-> goodOutcome.kind,
                                  bad  |-> badOutcome.kind]
                        /\ returned' = [save_good |-> "None", save_bad |-> "None",
                                        main |-> "None"]
                ELSE /\ UNCHANGED <<good_file, bad_file>>
                     /\ io' = [load |-> "failed", good |-> "none", bad |-> "none"]
                     /\ returned' = [save_good |-> "pending", save_bad |-> "pending",
                                     main |-> "raised"]
    /\ pc' = "done"
    /\ UNCHANGED aggregated
    /\ UNCHANGED evalVars
    /\ UNCHANGED collectVars
    /\ UNCHANGED funVars

\* mutant: save_items lets the write error through, so a failed write of the
\* good list ends main() before the bad list is written
FilterMain_SaveRaises(now) ==
    /\ pc = "collect"
    /\ \E readable \in BOOLEAN :
         \E loaded \in {load_items(aggregated, readable, now)} :
           \E r \in {Resolve(loaded)} :
             /\ items' = loaded
             /\ good_items' = r.good
             /\ bad_items' = r.bad
             /\ \E goodOutcome \in SaveOutcomes(r.good) :
                  \E badOutcome \in SaveOutcomes(r.bad) :
                    /\ good_file' = save_items(r.good, good_file, goodOutcome)
                    /\ bad_file' = IF goodOutcome.kind = "ok"
                                   THEN save_items(r.bad, bad_file, badOutcome)
                                   ELSE bad_file
                    /\ io' = [load |-> IF readable THEN "ok" ELSE "failed",
                              good |-> goodOutcome.kind,
                              bad  |-> badOutcome.kind]
                    /\ returned' =
                          IF goodOutcome.kind = "ok" /\ badOutcome.kind = "ok"
                          THEN [save_good |-> "None", save_bad |-> "None", main |-> "None"]
                          ELSE [save_good |-> "None", save_bad |-> "None", main |-> "raised"]
    /\ pc' = "done"
    /\ UNCHANGED aggregated
    /\ UNCHANGED evalVars
    /\ UNCHANGED collectVars
    /\ UNCHANGED funVars

\* item_filter.main: load, group, resolve, save both partitions.  Reading the
\* aggregated file and writing either output file may fail.
FilterMain(now) ==
    /\ pc = "collect"
    /\ \E readable \in BOOLEAN :
         \E loaded \in {load_items(aggregated, readable, now)} :
           \E r \in {Resolve(loaded)} :
             /\ items' = loaded
             /\ good_items' = r.good
             /\ bad_items' = r.bad
             /\ \E goodOutcome \in SaveOutcomes(r.good) :
                  \E badOutcome \in SaveOutcomes(r.bad) :
                    /\ good_file' = save_items(r.good, good_file, goodOutcome)
                    /\ bad_file' = save_items(r.bad, bad_file, badOutcome)
                    /\ io' = [load |-> IF readable THEN "ok" ELSE "failed",
                              good |-> goodOutcome.kind,
                              bad  |-> badOutcome.kind]
             /\ returned' = [save_good |-> "None", save_bad |-> "None", main |-> "None"]
    /\ pc' = "done"
    /\ UNCHANGED aggregated
    /\ UNCHANGED evalVars
    /\ UNCHANGED collectVars
    /\ UNCHANGED funVars

Next ==
    \/ \E now \in NowValues : \E item_data \in RawItems(now) : SaveItemData(item_data)
    \/ \E now \in NowValues : FilterMain(now)

Spec == Init /\ [][Next]_vars

\* ------------------------------------------------------------------------
\* The evaluators on their own: a record is drawn, then one evaluator is
\* called on it and on the same record with other recent sales
\* ------------------------------------------------------------------------

MaxSales == 20
MaxPrices == 3

\* an absent key, or the key with one of the values
Absent == [k \in {} |-> 0]
OptField(key, values) == {Absent} \cup {[k \in {key} |-> v] : v \in values}

SaleInfo(price) ==
    [price |-> price, date_time |-> [fmt |-> "%Y-%m-%d", t |-> 0], operation |-> "Offer"]

RECURSIVE SalesOfPrices(_)
SalesOfPrices(prices) ==
    IF prices = <<>> THEN <<>>
    ELSE <<SaleInfo(Head(prices))>> \o SalesOfPrices(Tail(prices))

\* margins around the two factors, the margin 1.0 of two absent prices and
\* the margin 100 of an offer of $1.00 over an absent target
Pair1Values == {<<1, 1>>, <<114, 100>>, <<115, 100>>, <<116, 100>>,
                <<125, 100>>, <<129, 100>>, <<130, 100>>, <<100, 1>>}
Pair2Values == {<<1, 1>>, <<115, 100>>, <<125, 100>>, <<130, 100>>}

RecentLists == {<<>>, SalesOfPrices(<<500, 500, 500>>), SalesOfPrices(<<100, 1000>>)}

EvalRecords ==
    { [name |-> NameX, wear |-> "Factory New", recent_sales_prices |-> r]
      @@ s @@ o @@ g @@ p1 @@ p2 :
        r  \in RecentLists,
        s  \in OptField("sales", 0..MaxSales),
        o  \in OptField("offer_prices_list", {<<>>, <<100>>}),
        g  \in OptField("target_price_list", {<<>>, <<90>>}),
        p1 \in OptField("profit_margin_pair1", Pair1Values),
        p2 \in OptField("profit_margin_pair2", Pair2Values) }

InitEval ==
    /\ rec \in EvalRecords
    /\ alt \in RecentLists
    /\ verdict = NoVerdict
    /\ aggregated = <<>>
    /\ pc = "eval"
    /\ items = <<>>
    /\ good_items = <<>>
    /\ bad_items = <<>>
    /\ good_file = NoFile
    /\ bad_file = NoFile
    /\ io = NoIo
    /\ returned = NothingReturned
    /\ NotCollecting
    /\ raw = NoInput
    /\ clock = 0
    /\ out = NoOutput

\* rec with the other recent sales
AltRec == [rec EXCEPT !.recent_sales_prices = alt]

EvalIsGoodCandidate ==
    /\ verdict.fn = "none"
    /\ verdict' = [fn      |-> "is_good_candidate",
                   val     |-> is_good_candidate(rec),
                   alt_val |-> is_good_candidate(AltRec)]
    /\ UNCHANGED <<rec, alt>>
    /\ UNCHANGED pipelineVars
    /\ UNCHANGED collectVars
    /\ UNCHANGED funVars

EvalPassesProfitMargin ==
    /\ verdict.fn = "none"
    /\ verdict' = [fn      |-> "passes_profit_margin",
                   val     |-> passes_profit_margin(rec),
                   alt_val |-> passes_profit_margin(AltRec)]
    /\ UNCHANGED <<rec, alt>>
    /\ UNCHANGED pipelineVars
    /\ UNCHANGED collectVars
    /\ UNCHANGED funVars

\* the condition of main() on an item of a group
EvalIsCandidate ==
    /\ verdict.fn = "none"
    /\ verdict' = [fn      |-> "candidate",
                   val     |-> IsCandidate(rec),
                   alt_val |-> IsCandidate(AltRec)]
    /\ UNCHANGED <<rec, alt>>
    /\ UNCHANGED pipelineVars
    /\ UNCHANGED collectVars
    /\ UNCHANGED funVars

EvalIsPriceConsistent ==
    /\ verdict.fn = "none"
    /\ verdict' = [fn      |-> "is_price_consistent",
                   val     |-> is_price_consistent(PricesOf(rec.recent_sales_prices)),
                   alt_val |-> is_price_consistent(PricesOf(alt))]
    /\ UNCHANGED <<rec, alt>>
    /\ UNCHANGED pipelineVars
    /\ UNCHANGED collectVars
    /\ UNCHANGED funVars

NextEval ==
    \/ EvalIsGoodCandidate
    \/ EvalPassesProfitMargin
    \/ EvalIsCandidate
    \/ EvalIsPriceConsistent

SpecEval == InitEval /\ [][NextEval]_vars

\* is_price_consistent on every list of at most MaxPrices prices
PriceValues == {0, 100, 400, 420, 421, 500, 600, 601, 1000}
PriceLists == UNION {[1..n -> PriceValues] : n \in 0..MaxPrices}

InitConsistent ==
    /\ \E prices \in PriceLists :
           rec = [name |-> NameX, wear |-> "Factory New",
                  recent_sales_prices |-> SalesOfPrices(prices)]
    /\ alt = <<>>
    /\ verdict = NoVerdict
    /\ aggregated = <<>>
    /\ pc = "eval"
    /\ items = <<>>
    /\ good_items = <<>>
    /\ bad_items = <<>>
    /\ good_file = NoFile
    /\ bad_file = NoFile
    /\ io = NoIo
    /\ returned = NothingReturned
    /\ NotCollecting
    /\ raw = NoInput
    /\ clock = 0
    /\ out = NoOutput

NextConsistent == EvalIsPriceConsistent

SpecConsistent == InitConsistent /\ [][NextConsistent]_vars


\* ------------------------------------------------------------------------
\* transform_item on its own: a raw item is drawn, then transformed
\* ------------------------------------------------------------------------

MaxOrders == 4
MaxEvents == 3

P200 == Dollar(<<50, 46, 48, 48>>)       \* "$2.00"
P000 == Dollar(<<48, 46, 48, 48>>)       \* "$0.00"
NotAPrice == <<78, 47, 65>>              \* "N/A"

\* every list of at most n order entries with the given price strings
OrderLists(strings, n) ==
    UNION {[1..k -> {OrderEntry(s) : s \in strings}] : k \in 0..n}

\* sale events: inside the window, on its first instant, before it, with a
\* price or a date that does not parse, with separate date and time fields,
\* and with an empty price
SaleEvents(now) ==
    { SaleEvent(P100, now),
      SaleEvent(P200, now - Window),
      SaleEvent(P100, now - Window - 1),
      SaleEvent(NotAPrice, now),
      [price |-> P100, operation |-> "Offer",
       date_time |-> [fmt |-> "yesterday", t |-> now]],
      [price |-> P090, operation |-> "Target",
       date |-> [fmt |-> "%Y-%m-%d", t |-> now - 24],
       time |-> [fmt |-> "%H:%M:%S", t |-> 1]],
      [price |-> <<>>, operation |-> "Offer",
       date_time |-> [fmt |-> "%Y-%m-%d", t |-> now]] }

Histories(now) == UNION {[1..k -> SaleEvents(now)] : k \in 0..MaxEvents}

\* raw items: every offer table against a few target tables, every target
\* table against a few offer tables, every sales history against a few
\* pairs of tables, and an item with no table at all
TransformInputs(now) ==
    { [name |-> NameX, wear |-> "Factory New",
       sales_history |-> History(MIN_SALES_EXCEPTION, 0, now),
       offer_prices |-> o, target_prices |-> g] :
         o \in OrderLists({P090, P100, P200, NotAPrice}, MaxOrders),
         g \in {<<>>, <<OrderEntry(P090)>>, <<OrderEntry(P100), OrderEntry(P090)>>} }
    \cup
    { [name |-> NameX, wear |-> "Factory New",
       sales_history |-> History(MIN_SALES_EXCEPTION, 0, now),
       offer_prices |-> o, target_prices |-> g] :
         o \in {<<>>, <<OrderEntry(P100)>>, <<OrderEntry(P100), OrderEntry(P200)>>},
         g \in OrderLists({P090, P100, P000, NotAPrice}, MaxOrders) }
    \cup
    { [name |-> NameX, wear |-> "Factory New",
       sales_history |-> h,
       offer_prices |-> og[1], target_prices |-> og[2]] :
         h \in Histories(now),
         og \in { <<<<OrderEntry(P100)>>, <<OrderEntry(P090)>>>>,
                  <<<<>>, <<>>>>,
                  <<<<OrderEntry(NotAPrice)>>, <<OrderEntry(P090)>>>> } }
    \cup
    { [name |-> NameX, wear |-> "Factory New"] }

InitTransform ==
    /\ clock \in NowValues
    /\ raw \in TransformInputs(clock)
    /\ out = NoOutput
    /\ pc = "raw"
    /\ rec = NoRecord
    /\ alt = <<>>
    /\ verdict = NoVerdict
    /\ aggregated = <<>>
    /\ items = <<>>
    /\ good_items = <<>>
    /\ bad_items = <<>>
    /\ good_file = NoFile
    /\ bad_file = NoFile
    /\ io = NoIo
    /\ returned = NothingReturned
    /\ NotCollecting

\* items = [transform_item(item) for item in raw_items], one item of it
TransformItem ==
    /\ pc = "raw"
    /\ out' = transform_item(raw, clock)
    /\ pc' = "transformed"
    /\ UNCHANGED <<raw, clock>>
    /\ UNCHANGED <<aggregated, items, good_items, bad_items, good_file, bad_file,
                   io, returned>>
    /\ UNCHANGED evalVars
    /\ UNCHANGED collectVars

\* main() on the batch that holds this one record: it is its own group
ResolveItem ==
    /\ pc = "transformed"
    /\ \E r \in {Resolve(<<out>>)} :
         /\ items' = <<out>>
         /\ good_items' = r.good
         /\ bad_items' = r.bad
    /\ pc' = "resolved"
    /\ UNCHANGED <<raw, clock, out>>
    /\ UNCHANGED <<aggregated, good_file, bad_file, io, returned>>
    /\ UNCHANGED evalVars
    /\ UNCHANGED collectVars

NextTransform == TransformItem \/ ResolveItem

SpecTransform == InitTransform /\ [][NextTransform]_vars

\* ------------------------------------------------------------------------
\* Names on their own: a raw name is cleaned by transform_item, then main()
\* cleans the record's name again and takes its base name as the group key
\* ------------------------------------------------------------------------

MaxNameLen == 4

\* " ", "X", "a", the combining circumflex, the artifact character and the
\* two characters that follow it in a mis-encoded trademark sign, the
\* trademark sign itself and the letter with the byte 0xC2
NameChars == {32, 88, 97, 770, 226, 132, 162, 8482, 194}

ShortNames == UNION {[1..n -> NameChars] : n \in 0..MaxNameLen}

StatTrak == <<83, 116, 97, 116, 84, 114, 97, 107>>                 \* "StatTrak"
M249Magma == <<32, 77, 50, 52, 57, 32, 124, 32, 77, 97, 103, 109, 97>> \* " M249 | Magma"
Artifact2 == <<226, 162>>            \* U+00E2 U+00A2
Artifact3 == <<226, 132, 162>>       \* U+00E2 U+0084 U+00A2: the bytes of U+2122

LongNames ==
    {StatTrak \o a \o M249Magma : a \in {<<>>, Artifact2, Artifact3, <<8482>>}}

NameInputs ==
    ShortNames \cup LongNames
        \cup {n \o OwnedMarker : n \in ShortNames \cup LongNames}

InitName ==
    /\ raw \in NameInputs
    /\ clock = 0
    /\ out = NoOutput
    /\ pc = "name"
    /\ rec = NoRecord
    /\ alt = <<>>
    /\ verdict = NoVerdict
    /\ aggregated = <<>>
    /\ items = <<>>
    /\ good_items = <<>>
    /\ bad_items = <<>>
    /\ good_file = NoFile
    /\ bad_file = NoFile
    /\ io = NoIo
    /\ returned = NothingReturned
    /\ NotCollecting

\* transform_item: transformed["name"] = clean_name(raw_name)
CleanName ==
    /\ pc = "name"
    /\ out' = [name |-> clean_name(raw)]
    /\ pc' = "cleaned"
    /\ UNCHANGED <<raw, clock>>
    /\ UNCHANGED <<aggregated, items, good_items, bad_items, good_file, bad_file,
                   io, returned>>
    /\ UNCHANGED evalVars
    /\ UNCHANGED collectVars

\* main: name_clean = clean_name(item["name"]); base = base_name(name_clean);
\* the item is owned when item["name"] ends with " MINE"
GroupItem ==
    /\ pc = "cleaned"
    /\ out' = [name       |-> out.name,
               name_clean |-> clean_name(out.name),
               base       |-> GroupKey(out),
               mine       |-> IsMine(out)]
    /\ pc' = "grouped"
    /\ UNCHANGED <<raw, clock>>
    /\ UNCHANGED <<aggregated, items, good_items, bad_items, good_file, bad_file,
                   io, returned>>
    /\ UNCHANGED evalVars
    /\ UNCHANGED collectVars

NextName == CleanName \/ GroupItem

SpecName == InitName /\ [][NextName]_vars

\* ------------------------------------------------------------------------
\* The collection loop of main.py and ItemFetcher.fetch_item_data
\* ------------------------------------------------------------------------

\* while processed_count < 90
TargetCount == 90
\* processed_count % 8 == 0
ScrollEvery == 8

\* the marketplace holds MaxElements item elements, a load brings PageSize
\* more of them, and only the first MaxTroubled elements visited may show an
\* item seen before or fail to load
MaxElements == 93
PageSize == 31
MaxTroubled == 3

LPAREN == 40
RPAREN == 41

\* the decimal digits of n
RECURSIVE DigitsOf(_)
DigitsOf(n) ==
    IF n < 10 THEN <<48 + n>> ELSE DigitsOf(n \div 10) \o <<48 + (n % 10)>>

\* the titles the preview modal shows for item number n: "I<n> (FN)", the
\* same without the space, and the bare name
NameOf(n) == <<73>> \o DigitsOf(n)
Title(n) == NameOf(n) \o <<32, LPAREN, 70, 78, RPAREN>>
TightTitle(n) == NameOf(n) \o <<LPAREN, 70, 78, RPAREN>>

\* full_name.rsplit("(", 1): the place of the last "("
LastParen(full_name) ==
    CHOOSE i \in 1..Len(full_name) :
        /\ full_name[i] = LPAREN
        /\ \A j \in (i + 1)..Len(full_name) : full_name[j] # LPAREN

\* parse_item_name_and_wear: (item_name, item_wear), the wear being <<wear>>
\* or <<>> for None
parse_item_name_and_wear(full_name) ==
    IF /\ \E i \in 1..Len(full_name) : full_name[i] = LPAREN
       /\ full_name # <<>> /\ full_name[Len(full_name)] = RPAREN
    THEN LET at        == LastParen(full_name)
             name_part == SubSeq(full_name, 1, at - 1)
             wear_part == SubSeq(full_name, at + 1, Len(full_name))
         IN  <<Strip(name_part), <<Strip(SubSeq(wear_part, 1, Len(wear_part) - 1))>>>>
    ELSE <<full_name, <<>>>>

\* the steps of fetch_item_data that raise DataFetchError when the page
\* does not answer, in the order of the calls; "none": every step answers
StepsBeforeKey == {"click_info_icon", "fetch_item_name"}
StepsAfterKey == {"fetch_sales_history", "click_trading_statistics",
                  "fetch_target_prices", "fetch_offer_prices", "click_close_button"}
Faults == {"none"} \cup StepsBeforeKey \cup StepsAfterKey

\* mutant: the key is marked only when the whole item was fetched
fetch_item_data_MarkLate(full_name, processed, fault) ==
    IF fault \in StepsBeforeKey
    THEN [result |-> "DataFetchError", at |-> fault, key |-> NoKey,
          processed_items |-> processed]
    ELSE LET item_key == parse_item_name_and_wear(full_name)
         IN  IF item_key \in processed
             THEN IF fault = "click_close_button"
                  THEN [result |-> "DataFetchError", at |-> "duplicate_close",
                        key |-> item_key, processed_items |-> processed]
                  ELSE [result |-> "DuplicateItemError", at |-> "duplicate",
                        key |-> item_key, processed_items |-> processed]
             ELSE IF fault \in StepsAfterKey
                  THEN [result |-> "DataFetchError", at |-> fault, key |-> item_key,
                        processed_items |-> processed]
                  ELSE [result |-> "item_data", at |-> "return", key |-> item_key,
                        processed_items |-> processed \cup {item_key}]

\* mutant: the test for a key seen before is missing
fetch_item_data_NoCheck(full_name, processed, fault) ==
    IF fault \in StepsBeforeKey
    THEN [result |-> "DataFetchError", at |-> fault, key |-> NoKey,
          processed_items |-> processed]
    ELSE LET item_key == parse_item_name_and_wear(full_name)
         IN  IF fault \in StepsAfterKey
             THEN [result |-> "DataFetchError", at |-> fault, key |-> item_key,
                   processed_items |-> processed \cup {item_key}]
             ELSE [result |-> "item_data", at |-> "return", key |-> item_key,
                   processed_items |-> processed \cup {item_key}]

\* fetch_item_data on an element whose modal shows full_name, with processed
\* the set processed_items at the call and fault the step that fails:
\* how the call ends, where, the key it read, and processed_items after it
fetch_item_data(full_name, processed, fault) ==
    IF fault \in StepsBeforeKey
    THEN [result |-> "DataFetchError", at |-> fault, key |-> NoKey,
          processed_items |-> processed]
    ELSE LET item_key == parse_item_name_and_wear(full_name)
         IN  IF item_key \in processed
             THEN IF fault = "click_close_button"
                  THEN [result |-> "DataFetchError", at |-> "duplicate_close",
                        key |-> item_key, processed_items |-> processed]
                  ELSE [result |-> "DuplicateItemError", at |-> "duplicate",
                        key |-> item_key, processed_items |-> processed]
             ELSE IF fault \in StepsAfterKey
                  THEN [result |-> "DataFetchError", at |-> fault, key |-> item_key,
                        processed_items |-> processed \cup {item_key}]
                  ELSE [result |-> "item_data", at |-> "return", key |-> item_key,
                        processed_items |-> processed \cup {item_key}]

\* the item_data of a call that returned: the name and wear of the key (the
\* three tables it carries are left out)
ItemData(item_key) == [name |-> item_key[1], wear |-> item_key[2]]

\* for item in new_items: if item not in master_items: master_items.append(item)
RECURSIVE ExtendMaster(_, _)
ExtendMaster(master, new_items) ==
    IF new_items = <<>> THEN master
    ELSE IF Head(new_items) \in Range(master)
         THEN ExtendMaster(master, Tail(new_items))
         ELSE ExtendMaster(Append(master, Head(new_items)), Tail(new_items))

\* the elements 1..m of the page, in page order
PageElements(m) == [i \in 1..m |-> i]

\* what the page can hold after a scroll: nothing new, or one more page
PagesAfterScroll(master) ==
    { PageElements(Len(master)),
      PageElements(IF Len(master) + PageSize <= MaxElements
                   THEN Len(master) + PageSize ELSE MaxElements) }

\* the titles the next element can show: the next new item, or, among the
\* first elements, an item shown before, in either spelling
ShownTitles ==
    LET n == Cardinality(processed_items)
    IN  {Title(n + 1)} \cup
        (IF total_index < MaxTroubled
         THEN {Title(j) : j \in 1..n} \cup {TightTitle(j) : j \in 1..n}
         ELSE {})

\* the steps that can fail on the next element
ShownFaults == IF total_index < MaxTroubled THEN Faults ELSE {"none"}

\* the state at line 113: the initial items are in the master list
InitCollect ==
    /\ pc = "loop"
    /\ processed_items = {}
    /\ master_items = PageElements(PageSize)
    /\ processed_count = 0
    /\ total_index = 0
    /\ save_calls = <<>>
    /\ last = NoCall
    /\ aggregated = <<>>
    /\ items = <<>>
    /\ good_items = <<>>
    /\ bad_items = <<>>
    /\ good_file = NoFile
    /\ bad_file = NoFile
    /\ io = NoIo
    /\ returned = NothingReturned
    /\ rec = NoRecord
    /\ alt = <<>>
    /\ verdict = NoVerdict
    /\ raw = NoInput
    /\ clock = 0
    /\ out = NoOutput

\* lines 115-132: the master list is used up; scroll and take in the new
\* elements.  The wait for the elements can time out, which ends main().
LoadMoreItems ==
    /\ pc = "loop"
    /\ processed_count < TargetCount
    /\ total_index >= Len(master_items)
    /\ \/ /\ pc' = "raised"
          /\ UNCHANGED master_items
       \/ /\ \E new_items \in PagesAfterScroll(master_items) :
               master_items' = ExtendMaster(master_items, new_items)
          /\ pc' = "loop"
    /\ UNCHANGED <<processed_items, processed_count, total_index, save_calls, last>>
    /\ UNCHANGED <<aggregated, items, good_items, bad_items, good_file, bad_file,
                   io, returned>>
    /\ UNCHANGED evalVars
    /\ UNCHANGED funVars

\* mutant: a duplicate is counted as processed
ProcessItem_CountDuplicates ==
    /\ pc = "loop"
    /\ processed_count < TargetCount
    /\ total_index < Len(master_items)
    /\ \E full_name \in ShownTitles :
         \E fault \in ShownFaults :
           \E r \in {fetch_item_data(full_name, processed_items, fault)} :
             /\ total_index' = total_index + 1
             /\ processed_items' = r.processed_items
             /\ last' = [index |-> total_index + 1, key |-> r.key,
                         at |-> r.at, result |-> r.result]
             /\ IF r.result = "item_data"
                THEN /\ save_calls' = Append(save_calls, ItemData(r.key))
                     /\ processed_count' = processed_count + 1
                     /\ pc' = IF (processed_count + 1) % ScrollEvery = 0
                              THEN "scroll" ELSE "loop"
                ELSE IF r.result = "DuplicateItemError"
                THEN /\ processed_count' = processed_count + 1
                     /\ pc' = "loop"
                     /\ UNCHANGED save_calls
                ELSE /\ \E screenshot \in BOOLEAN :
                          pc' = IF screenshot THEN "loop" ELSE "raised"
                     /\ UNCHANGED <<save_calls, processed_count>>
    /\ UNCHANGED master_items
    /\ UNCHANGED <<aggregated, items, good_items, bad_items, good_file, bad_file,
                   io, returned>>
    /\ UNCHANGED evalVars
    /\ UNCHANGED funVars

\* lines 135-163: the next element of the master list is visited.  An item
\* that was fetched is saved and counted; a duplicate is passed over; after
\* any other error a screenshot is taken, which can fail and end main().
ProcessItem ==
    /\ pc = "loop"
    /\ processed_count < TargetCount
    /\ total_index < Len(master_items)
    /\ \E full_name \in ShownTitles :
         \E fault \in ShownFaults :
           \E r \in {fetch_item_data(full_name, processed_items, fault)} :
             /\ total_index' = total_index + 1
             /\ processed_items' = r.processed_items
             /\ last' = [index |-> total_index + 1, key |-> r.key,
                         at |-> r.at, result |-> r.result]
             /\ IF r.result = "item_data"
                THEN /\ save_calls' = Append(save_calls, ItemData(r.key))
                     /\ processed_count' = processed_count + 1
                     /\ pc' = IF (processed_count + 1) % ScrollEvery = 0
                              THEN "scroll" ELSE "loop"
                ELSE IF r.result = "DuplicateItemError"
                THEN /\ pc' = "loop"
                     /\ UNCHANGED <<save_calls, processed_count>>
                ELSE /\ \E screenshot \in BOOLEAN :
                          pc' = IF screenshot THEN "loop" ELSE "raised"
                     /\ UNCHANGED <<save_calls, processed_count>>
    /\ UNCHANGED master_items
    /\ UNCHANGED <<aggregated, items, good_items, bad_items, good_file, bad_file,
                   io, returned>>
    /\ UNCHANGED evalVars
    /\ UNCHANGED funVars

\* lines 166-179: after every 8th item saved, scroll and take in the new
\* elements; the wait can time out here too
ScrollAfterEight ==
    /\ pc = "scroll"
    /\ \/ /\ pc' = "raised"
          /\ UNCHANGED master_items
       \/ /\ \E new_items \in PagesAfterScroll(master_items) :
               master_items' = ExtendMaster(master_items, new_items)
          /\ pc' = "loop"
    /\ UNCHANGED <<processed_items, processed_count, total_index, save_calls, last>>
    /\ UNCHANGED <<aggregated, items, good_items, bad_items, good_file, bad_file,
                   io, returned>>
    /\ UNCHANGED evalVars
    /\ UNCHANGED funVars

\* line 181: the loop condition is false, "Script completed successfully"
Complete ==
    /\ pc = "loop"
    /\ ~(processed_count < TargetCount)
    /\ pc' = "completed"
    /\ UNCHANGED collectVars
    /\ UNCHANGED <<aggregated, items, good_items, bad_items, good_file, bad_file,
                   io, returned>>
    /\ UNCHANGED evalVars
    /\ UNCHANGED funVars

NextCollect == LoadMoreItems \/ ProcessItem \/ ScrollAfterEight \/ Complete

SpecCollect == InitCollect /\ [][NextCollect]_vars

\* ------------------------------------------------------------------------
\* Properties of the grouping resolver (specification Spec)
\* ------------------------------------------------------------------------

\* how many times e occurs in the sequence s
CountIn(s, e) == Cardinality({i \in 1..Len(s) : s[i] = e})

InputEntries == ProjectAll(items)
AllEntries == Range(InputEntries) \cup Range(good_items) \cup Range(bad_items)

\* the positions of the records of group k, of its regular records, of its
\* owned records, and of its regular records that qualify
Members(k) == {i \in 1..Len(items) : GroupKey(items[i]) = k}
Regulars(k) == {i \in Members(k) : ~IsMine(items[i])}
Owned(k) == {i \in Members(k) : IsMine(items[i])}
Qualifies(i) == is_good_candidate(items[i]) \/ passes_profit_margin(items[i])
RegularCandidates(k) == {i \in Regulars(k) : Qualifies(i)}
Keys == {GroupKey(items[i]) : i \in 1..Len(items)}

\* how many records at the positions I project to the entry e
CountAt(I, e) == Cardinality({i \in I : Projection(items[i]) = e})

\* how many entries of the list s belong to group k
CountOfKey(s, k) == Cardinality({i \in 1..Len(s) : GroupKey(s[i]) = k})

\* C1: after main() every input record is emitted to exactly one of good or
\* bad: for every entry, the number of input records that project to it is
\* the number of its occurrences in good plus in bad (so the regular records
\* of a group that did not win are in bad).
C1_EveryRecordEmittedOnce ==
    pc = "done" =>
        \A e \in AllEntries :
            CountIn(InputEntries, e) = CountIn(good_items, e) + CountIn(bad_items, e)

\* C2: when a group has a winner, every owned record of the group is in bad,
\* whether or not it qualifies itself; one qualifying regular record plus two
\* owned variants give exactly 1 good entry and 2 bad entries.
C2_OwnedAlwaysBad ==
    pc = "done" =>
        /\ \A k \in Keys :
              RegularCandidates(k) # {} =>
                  \A e \in AllEntries : CountAt(Owned(k), e) <= CountIn(bad_items, e)
        /\ \A k \in Keys :
              ( /\ Members(k) = 1..Len(items)
                /\ Cardinality(Regulars(k)) = 1
                /\ Cardinality(RegularCandidates(k)) = 1
                /\ Cardinality(Owned(k)) = 2 )
              => Len(good_items) = 1 /\ Len(bad_items) = 2

\* a winner and an owned record of its group that qualifies on its own and
\* is in bad, in a batch of one regular and two owned records
C2_Witness ==
    /\ pc = "done"
    /\ Len(good_items) = 1 /\ Len(bad_items) = 2
    /\ \E k \in Keys :
          /\ RegularCandidates(k) # {}
          /\ Cardinality(Owned(k)) = 2
          /\ \E j \in Owned(k) :
                Qualifies(j) /\ Projection(items[j]) \in Range(bad_items)

\* C3: if no regular record of a group qualifies, every record of the group
\* is in bad and the group has no entry in good, even when an owned record
\* of the group qualifies.
C3_NoRegularCandidateAllBad ==
    pc = "done" =>
        \A k \in Keys :
            RegularCandidates(k) = {} =>
                /\ \A e \in AllEntries :
                      GroupKey(e) = k => CountAt(Members(k), e) = CountIn(bad_items, e)
                /\ CountOfKey(good_items, k) = 0

\* a group with a regular record, none qualifying, and an owned record that does
C3_Witness ==
    /\ pc = "done"
    /\ \E k \in Keys :
          /\ Regulars(k) # {}
          /\ RegularCandidates(k) = {}
          /\ \E j \in Owned(k) : Qualifies(j)
          /\ CountOfKey(bad_items, k) = Cardinality(Members(k))

\* C4: the winner of a group is its first regular record, in input order,
\* for which is_good_candidate or passes_profit_margin holds.
C4_FirstRegularCandidateWins ==
    pc = "done" =>
        \A k \in Keys :
            RegularCandidates(k) # {} =>
                LET first == CHOOSE i \in RegularCandidates(k) :
                                 \A j \in RegularCandidates(k) : i <= j
                IN  /\ CountOfKey(good_items, k) = 1
                    /\ Projection(items[first]) \in Range(good_items)
                    /\ \A j \in RegularCandidates(k) :
                          Projection(items[j]) # Projection(items[first])
                              => Projection(items[j]) \notin Range(good_items)

\* a regular record that does not qualify, then one that qualifies by its
\* margin only, then one that qualifies by its lists: the second one wins
C4_Witness ==
    /\ pc = "done"
    /\ Len(items) = 3
    /\ \E k \in Keys :
          /\ Regulars(k) = {1, 2, 3}
          /\ ~Qualifies(1)
          /\ ~is_good_candidate(items[2]) /\ passes_profit_margin(items[2])
          /\ is_good_candidate(items[3])
          /\ Projection(items[3]) # Projection(items[2])
    /\ good_items = <<Projection(items[2])>>

\* C5: good holds at most one entry per base identity.
C5_OneWinnerPerGroup ==
    pc = "done" =>
        \A i, j \in 1..Len(good_items) :
            i # j => GroupKey(good_items[i]) # GroupKey(good_items[j])

\* two groups with a winner each, one of them with two qualifying regular records
C5_Witness ==
    /\ pc = "done"
    /\ Len(good_items) = 2
    /\ \E k \in Keys : Cardinality(RegularCandidates(k)) = 2

\* ------------------------------------------------------------------------
\* Properties of the evaluators (specifications SpecEval, SpecConsistent)
\* ------------------------------------------------------------------------

RecSales == IF "sales" \in DOMAIN rec THEN rec.sales ELSE 0

\* the list stored under key is present and not empty
NonEmptyList(key) == key \in DOMAIN rec /\ rec[key] # <<>>

\* the margin stored under key is present and at least h hundredths
MarginAtLeast(key, h) == key \in DOMAIN rec /\ rec[key][1] * 100 >= h * rec[key][2]

\* C6: a record with fewer than 7 sales is never a candidate: is_good_candidate,
\* passes_profit_margin and their disjunction are false whatever its lists
\* and margins are.
C6_FewSalesNeverCandidate ==
    ( /\ verdict.fn \in {"is_good_candidate", "passes_profit_margin", "candidate"}
      /\ RecSales < 7 )
    => ~verdict.val

\* 5 sales, both lists and a margin above every factor: still no candidate
C6_Witness ==
    /\ verdict.fn = "candidate"
    /\ RecSales = 5
    /\ NonEmptyList("offer_prices_list") /\ NonEmptyList("target_price_list")
    /\ MarginAtLeast("profit_margin_pair1", 10000)
    /\ ~verdict.val

\* C7: with at least 7 sales is_good_candidate is true exactly when both the
\* offer list and the target list are present and non-empty.
C7_GoodCandidateIffBothLists ==
    (verdict.fn = "is_good_candidate" /\ RecSales >= 7)
    => (verdict.val <=>
            (NonEmptyList("offer_prices_list") /\ NonEmptyList("target_price_list")))

\* enough sales and offers, an empty target list: rejected
C7_Witness ==
    /\ verdict.fn = "is_good_candidate"
    /\ RecSales >= 7
    /\ NonEmptyList("offer_prices_list")
    /\ "target_price_list" \in DOMAIN rec /\ rec.target_price_list = <<>>
    /\ ~verdict.val

\* C8: with at least 7 sales passes_profit_margin is true exactly when one of
\* the two margins is at least F, F = 1.15 from 15 sales on and 1.30 below;
\* (20 sales, margin 1.16) passes, (10 sales, margins 1.25 at most) does not.
C8_ProfitMarginThreshold ==
    (verdict.fn = "passes_profit_margin" /\ RecSales >= 7)
    => /\ verdict.val <=>
            LET F == IF RecSales >= 15 THEN 115 ELSE 130
            IN  MarginAtLeast("profit_margin_pair1", F)
                    \/ MarginAtLeast("profit_margin_pair2", F)
       /\ (RecSales = 20 /\ MarginAtLeast("profit_margin_pair1", 116)) => verdict.val
       /\ ( /\ RecSales = 10
            /\ ~MarginAtLeast("profit_margin_pair1", 126)
            /\ ~MarginAtLeast("profit_margin_pair2", 126) ) => ~verdict.val

\* exactly 15 sales and a first margin of exactly 1.15, the second below: passes
C8_Witness ==
    /\ verdict.fn = "passes_profit_margin"
    /\ RecSales = 15
    /\ "profit_margin_pair1" \in DOMAIN rec /\ rec.profit_margin_pair1 = <<115, 100>>
    /\ ~MarginAtLeast("profit_margin_pair2", 115)
    /\ verdict.val

\* C9: price consistency does not gate candidacy: two records that differ
\* only in their recent sale prices get the same candidate verdict.
C9_ConsistencyDoesNotGate ==
    verdict.fn = "candidate" => verdict.val = verdict.alt_val

\* a candidate whose recent prices are inconsistent while the other record's are not
C9_Witness ==
    /\ verdict.fn = "candidate"
    /\ verdict.val
    /\ ~is_price_consistent(PricesOf(rec.recent_sales_prices))
    /\ is_price_consistent(PricesOf(alt))

RecPrices == PricesOf(rec.recent_sales_prices)

\* C10: is_price_consistent is false for no prices or a minimum of zero,
\* else true exactly when max/min <= T, T = 4.2 for a mean below 5.0 and
\* 1.20 otherwise ([] -> false, [5,5,5] -> true, [1,10] -> false).
C10_PriceConsistentRule ==
    verdict.fn = "is_price_consistent" =>
        /\ verdict.val <=>
              /\ RecPrices # <<>>
              /\ \A i \in 1..Len(RecPrices) : RecPrices[i] # 0
              /\ \A i, j \in 1..Len(RecPrices) :
                    IF SumSeq(RecPrices) < 500 * Len(RecPrices)
                    THEN RecPrices[i] * 10 <= 42 * RecPrices[j]
                    ELSE RecPrices[i] * 100 <= 120 * RecPrices[j]
        /\ RecPrices = <<>> => ~verdict.val
        /\ RecPrices = <<500, 500, 500>> => verdict.val
        /\ RecPrices = <<100, 1000>> => ~verdict.val

\* a mean of exactly 5.0 takes the strict threshold: [4, 6] is inconsistent
C10_Witness ==
    /\ verdict.fn = "is_price_consistent"
    /\ RecPrices = <<400, 600>>
    /\ ~verdict.val

\* ------------------------------------------------------------------------
\* Properties of transform_item (specification SpecTransform)
\* ------------------------------------------------------------------------

RawOffers == Get(raw, "offer_prices", <<>>)
RawTargets == Get(raw, "target_prices", <<>>)
RawHistory == Get(raw, "sales_history", <<>>)

\* the price string of an entry is a number
PriceParses(e) == ParsePrice(Get(e, "price", <<>>)).ok

\* the price string of an entry is there and is not a number
PriceMalformed(e) == Truthy(Get(e, "price", <<>>)) /\ ~PriceParses(e)

\* the prices of the entries whose price string is a number, in input order
RECURSIVE ParsedPrices(_)
ParsedPrices(entries) ==
    IF entries = <<>> THEN <<>>
    ELSE IF PriceParses(Head(entries))
         THEN <<ParsePrice(Head(entries).price).v>> \o ParsedPrices(Tail(entries))
         ELSE ParsedPrices(Tail(entries))

AtMost3(n) == IF n < 3 THEN n ELSE 3

\* kept holds the lowest (sign = 1) or highest (sign = -1) prices of all:
\* it takes its elements from all, and a price left out is no better than
\* any price kept
HoldsBest(kept, all, sign) ==
    /\ Len(kept) = AtMost3(Len(all))
    /\ \A v \in Range(kept) : CountIn(kept, v) <= CountIn(all, v)
    /\ \A v \in Range(all) :
          CountIn(all, v) > CountIn(kept, v) =>
              \A w \in Range(kept) : sign * w <= sign * v

\* C11: the record has an offer_prices_list of at most 3 elements, ascending,
\* holding the 3 lowest parsed offer prices, and a target_price_list of at
\* most 3 elements, descending, holding the 3 highest parsed target prices.
C11_OrderListsBounded ==
    pc = "transformed" =>
        /\ HasKey(out, "offer_prices_list")
        /\ HasKey(out, "target_price_list")
        /\ LET o == out.offer_prices_list
               g == out.target_price_list
           IN  /\ Len(o) <= 3 /\ Len(g) <= 3
               /\ \A i \in 1..(Len(o) - 1) : o[i] <= o[i + 1]
               /\ \A i \in 1..(Len(g) - 1) : g[i] >= g[i + 1]
               /\ HoldsBest(o, ParsedPrices(RawOffers), 1)
               /\ HoldsBest(g, ParsedPrices(RawTargets), -1)

\* the event has a price and a date that parse
WellFormedSale(sh) == PriceParses(sh) /\ parse_date(ResolveDateTime(sh)).ok

\* ... and its date is at or after now - 30 days
InWindow(sh) ==
    WellFormedSale(sh) /\ parse_date(ResolveDateTime(sh)).t >= clock - Window

\* C12: sales is the number of sale events whose price parses and whose date
\* parses to a time at or after now - 30 days, that instant included; an
\* earlier event is never counted.
C12_SalesCountsWindow ==
    pc = "transformed" =>
        /\ HasKey(out, "sales")
        /\ out.sales = Cardinality({i \in 1..Len(RawHistory) : InWindow(RawHistory[i])})

\* a history with an event on the first instant of the window and an older
\* one: the first is counted, the second is not
C12_Witness ==
    /\ pc = "transformed"
    /\ \E i, j \in 1..Len(RawHistory) :
          /\ WellFormedSale(RawHistory[i])
          /\ parse_date(ResolveDateTime(RawHistory[i])).t = clock - Window
          /\ WellFormedSale(RawHistory[j])
          /\ parse_date(ResolveDateTime(RawHistory[j])).t < clock - Window
    /\ out.sales >= 1
    /\ out.sales < Len(RawHistory)

\* the price or the date of the event does not parse
MalformedSale(sh) ==
    \/ PriceMalformed(sh)
    \/ (PriceParses(sh) /\ ~parse_date(ResolveDateTime(sh)).ok)

NotMalformedSale(sh) == ~MalformedSale(sh)

\* the raw item without its malformed sale events
WithoutMalformedSales ==
    IF HasKey(raw, "sales_history")
    THEN [raw EXCEPT !.sales_history = SelectSeq(raw.sales_history, NotMalformedSale)]
    ELSE raw

\* C13: a sale event whose price or date does not parse is dropped on its
\* own: every other event is still evaluated (the recent sales are the
\* well-formed events of the window, in order) and the record is the one
\* the item gives without the malformed events, lists, margins and
\* statistics included.
C13_MalformedSaleDropped ==
    pc = "transformed" =>
        LET kept == SelectSeq(RawHistory, InWindow)
        IN  /\ HasKey(out, "recent_sales_prices")
            /\ Len(out.recent_sales_prices) = Len(kept)
            /\ \A i \in 1..Len(kept) :
                  out.recent_sales_prices[i].price = ParsePrice(kept[i].price).v
            /\ out = transform_item(WithoutMalformedSales, clock)

\* a price that does not parse, then a date that does not parse, then a good
\* event: it is counted, and margins and statistics are there
C13_Witness ==
    /\ pc = "transformed"
    /\ Len(RawHistory) = 3
    /\ PriceMalformed(RawHistory[1])
    /\ PriceParses(RawHistory[2]) /\ MalformedSale(RawHistory[2])
    /\ InWindow(RawHistory[3])
    /\ out.sales = 1
    /\ HasKey(out, "profit_margin_pair1") /\ HasKey(out, "profit_margin_pair2")
    /\ HasKey(out, "average_recent_sale_price")
    /\ out.average_recent_sale_price[1] > 0

\* C14: an offer or target entry whose price does not parse is skipped: the
\* entries that parse still fill offer_prices_list and target_price_list,
\* and the margins and statistics are still computed.
C14_MalformedOrderSkipped ==
    ( /\ pc = "transformed"
      /\ \/ \E i \in 1..Len(RawOffers) : PriceMalformed(RawOffers[i])
         \/ \E i \in 1..Len(RawTargets) : PriceMalformed(RawTargets[i]) )
    => /\ HasKey(out, "offer_prices_list")
       /\ HasKey(out, "target_price_list")
       /\ Len(out.offer_prices_list) = AtMost3(Len(ParsedPrices(RawOffers)))
       /\ Len(out.target_price_list) = AtMost3(Len(ParsedPrices(RawTargets)))
       /\ HasKey(out, "profit_margin_pair1") /\ HasKey(out, "profit_margin_pair2")
       /\ HasKey(out, "average_recent_sale_price") /\ HasKey(out, "price_variance")

\* C15: the record has both margins, offers[i] / targets[i] with 0.01 for a
\* missing price, whatever the prices are, a target price of 0 included
\* (stated for the items whose order entries all parse).
C15_MarginsAlwaysComputed ==
    ( /\ pc = "transformed"
      /\ \A i \in 1..Len(RawOffers) : ~PriceMalformed(RawOffers[i])
      /\ \A i \in 1..Len(RawTargets) : ~PriceMalformed(RawTargets[i]) )
    => /\ HasKey(out, "profit_margin_pair1")
       /\ HasKey(out, "profit_margin_pair2")
       /\ \A i \in 1..2 :
             LET o == ItemOrCent(out.offer_prices_list, i)
                 g == ItemOrCent(out.target_price_list, i)
                 m == IF i = 1 THEN out.profit_margin_pair1 ELSE out.profit_margin_pair2
             IN  m[1] * g = o * m[2]

\* ------------------------------------------------------------------------
\* Properties of clean_name and base_name (specification SpecName)
\* ------------------------------------------------------------------------

\* C16: clean_name is idempotent: cleaning the cleaned name again gives the
\* cleaned name, also when the first pass yields a name that holds the
\* artifact character.
C16_CleanNameIdempotent ==
    pc = "grouped" => out.name_clean = out.name

\* C17 (as stated): the name with the two characters U+00E2 U+00A2 between
\* "StatTrak" and " M249 | Magma" is returned as "StatTrak M249 | Magma".
C17_TwoCharArtifactRemoved ==
    (pc = "cleaned" /\ raw = StatTrak \o Artifact2 \o M249Magma)
        => out.name = StatTrak \o M249Magma

IsAscii(s) == \A i \in 1..Len(s) : s[i] < 128

\* the name is u, the three characters of a mis-encoded trademark sign, v
\* with u and v in ASCII
HasArtifact3(name, u, v) == name = u \o Artifact3 \o v /\ IsAscii(u) /\ IsAscii(v)

\* C17 (amended): a name with the three characters U+00E2 U+0084 U+00A2 (the
\* UTF-8 bytes of the trademark sign read as Latin-1) in otherwise ASCII
\* text is returned without them and with no artifact character left;
\* "StatTrak" + artifact + " M249 | Magma" gives "StatTrak M249 | Magma".
C17_ArtifactRemoved ==
    pc = "cleaned" =>
        /\ \A k \in 0..(Len(raw) - 3) :
              LET u == SubSeq(raw, 1, k)
                  v == SubSeq(raw, k + 4, Len(raw))
              IN  HasArtifact3(raw, u, v) =>
                      /\ out.name = JoinSp(SplitWs(u \o v, <<>>))
                      /\ Range(out.name) \cap {226, 132, 162, 8482} = {}
        /\ raw = StatTrak \o Artifact3 \o M249Magma
              => out.name = StatTrak \o M249Magma

\* the mis-encoded name of the docstring, cleaned
C17_Witness ==
    /\ pc = "cleaned"
    /\ raw = StatTrak \o Artifact3 \o M249Magma
    /\ out.name = StatTrak \o M249Magma

\* the re-decoding of the name fails: it holds the artifact character and
\* is not Latin-1 text or its bytes are not UTF-8
RedecodeFails(name) ==
    /\ ArtifactChar \in Range(name)
    /\ ~(Latin1Encodable(name) /\ Utf8Decode(name).ok)

\* C18: when the artifact is there and the re-decoding fails, clean_name
\* still returns a string: the original name with the trademark sign
\* stripped, NFKC-normalized and its whitespace collapsed.
C18_RedecodeFailureKeepsName ==
    (pc = "cleaned" /\ RedecodeFails(raw))
        => /\ out.name = JoinSp(SplitWs(NFKC(RemoveChar(raw, TradeMark)), <<>>))
           /\ TradeMark \notin Range(out.name)
           /\ \A i \in 1..Len(out.name) :
                 out.name[i] = 32 => (i > 1 /\ i < Len(out.name) /\ out.name[i + 1] # 32)

\* a name with the artifact character that is not Latin-1 text: the
\* trademark sign and the doubled space are gone, the rest is kept
C18_Witness ==
    /\ pc = "cleaned"
    /\ RedecodeFails(raw)
    /\ TradeMark \in Range(raw)
    /\ \E i \in 1..(Len(raw) - 1) : raw[i] = 32 /\ raw[i + 1] = 32
    /\ Len(out.name) >= 2
    /\ ArtifactChar \in Range(out.name)

\* C19: the group key of a record is its name without a trailing " MINE"
\* and the name itself otherwise, so the record named X and the record
\* named X + " MINE" have the same key, the first regular, the second owned.
C19_OwnedVariantSameGroup ==
    pc = "grouped" =>
        /\ out.mine = EndsWith(out.name, OwnedMarker)
        /\ out.base = IF out.mine
                      THEN SubSeq(out.name, 1, Len(out.name) - Len(OwnedMarker))
                      ELSE out.name
        /\ (out.name # <<>> /\ ~out.mine) =>
              LET variant == [name |-> out.name \o OwnedMarker]
              IN  GroupKey(variant) = out.base /\ IsMine(variant)

\* ------------------------------------------------------------------------
\* The entries of good and bad (specification Spec)
\* ------------------------------------------------------------------------

\* the input records whose own name and wear are those of the entry e
RecordsOf(e) ==
    {i \in 1..Len(items) : items[i].name = e.name /\ items[i].wear = e.wear}

\* C20: every entry of good and of bad is the {name, wear} of one input
\* record, with the record's own name and not the base name of its group
\* (no more entries than records with that name and wear), and no entry of
\* good has a name ending with " MINE".
C20_EntriesAreOwnProjections ==
    pc = "done" =>
        /\ \A e \in Range(good_items) \cup Range(bad_items) :
              /\ DOMAIN e = {"name", "wear"}
              /\ CountIn(good_items, e) + CountIn(bad_items, e)
                     <= Cardinality(RecordsOf(e))
        /\ \A e \in Range(good_items) : ~EndsWith(e.name, OwnedMarker)

\* a winner in good and an owned record of its group in bad under its own
\* name, which is not the base name
C20_Witness ==
    /\ pc = "done"
    /\ \E g \in Range(good_items) :
          \E b \in Range(bad_items) :
              /\ EndsWith(b.name, OwnedMarker)
              /\ b.name # g.name
              /\ base_name(clean_name(b.name)) = g.name

\* ------------------------------------------------------------------------
\* Reading and writing in main() (specification Spec)
\* ------------------------------------------------------------------------

EmptyFile == [written |-> TRUE, content |-> <<>>]

C22_SaveFailuresIndependent ==
    pc = "done" =>
        /\ (io.good \in {"open_failed", "write_failed"} /\ io.bad = "ok")
              => bad_file = [written |-> TRUE, content |-> bad_items]
        /\ (io.bad \in {"open_failed", "write_failed"} /\ io.good = "ok")
              => good_file = [written |-> TRUE, content |-> good_items]

\* the write of a non-empty good list breaks off and the non-empty bad list
\* is written in full
C22_Witness ==
    /\ pc = "done"
    /\ io.good = "write_failed" /\ io.bad = "ok"
    /\ good_items # <<>> /\ bad_items # <<>>
    /\ ~good_file.written
    /\ bad_file = [written |-> TRUE, content |-> bad_items]

\* C23: a failed save is surfaced to the caller: save_items hands back an
\* error (or raises) and main() does not end as a run whose writes all went
\* through.
C23_SaveFailureSurfaced ==
    pc = "done" =>
        /\ io.good \in {"open_failed", "write_failed"}
              => (returned.save_good # "None" \/ returned.main # "None")
        /\ io.bad \in {"open_failed", "write_failed"}
              => (returned.save_bad # "None" \/ returned.main # "None")

\* C24: no input record is emitted twice: there are never more entries with
\* a name and wear than input records with them, the owned records of a
\* group without a winner are in bad exactly once, and good and bad
\* together are no longer than the input.
C24_NoRecordEmittedTwice ==
    pc = "done" =>
        /\ \A e \in AllEntries :
              CountIn(good_items, e) + CountIn(bad_items, e) <= CountIn(InputEntries, e)
        /\ \A k \in Keys :
              RegularCandidates(k) = {} =>
                  \A i \in Owned(k) :
                      CountIn(bad_items, Projection(items[i]))
                          = CountAt(Members(k), Projection(items[i]))
        /\ Len(good_items) + Len(bad_items) <= Len(items)

\* a group with a regular record that does not qualify and an owned record:
\* both are in bad once
C24_Witness ==
    /\ pc = "done"
    /\ Len(items) = 2
    /\ \E k \in Keys :
          /\ RegularCandidates(k) = {}
          /\ Cardinality(Regulars(k)) = 1
          /\ Cardinality(Owned(k)) = 1
    /\ good_items = <<>>
    /\ Len(bad_items) = 2

\* ------------------------------------------------------------------------
\* The recent sales of a record and the offer-only candidate
\* (specification SpecTransform)
\* ------------------------------------------------------------------------

\* the sale_info is the one the loop builds from the event sh, and sh is an
\* event of the window
IsSaleInfoOf(info, sh) ==
    /\ InWindow(sh)
    /\ info = [price     |-> ParsePrice(sh.price).v,
               date_time |-> ResolveDateTime(sh),
               operation |-> Get(sh, "operation", "None")]

\* infos are built from events of the history, taken in the history's order
RECURSIVE TakenInOrder(_, _)
TakenInOrder(infos, history) ==
    IF infos = <<>> THEN TRUE
    ELSE IF history = <<>> THEN FALSE
    ELSE IF IsSaleInfoOf(Head(infos), Head(history))
         THEN TakenInOrder(Tail(infos), Tail(history))
         ELSE TakenInOrder(infos, Tail(history))

\* C25: in a record of transform_item that has sales and recent_sales_prices,
\* sales is the length of recent_sales_prices, and the elements of
\* recent_sales_prices are sale events of the raw item dated inside the
\* 30-day window, in the order of the raw history.
C25_RecentSalesMatchHistory ==
    ( /\ pc = "transformed"
      /\ HasKey(out, "sales")
      /\ HasKey(out, "recent_sales_prices") )
    => /\ out.sales = Len(out.recent_sales_prices)
       /\ TakenInOrder(out.recent_sales_prices, RawHistory)
       /\ \A i \in 1..Len(out.recent_sales_prices) :
             parse_date(out.recent_sales_prices[i].date_time).t >= clock - Window

\* two different events of the window around an older one: both are kept,
\* in their order, and the older one is not
C25_Witness ==
    /\ pc = "transformed"
    /\ Len(RawHistory) = 3
    /\ InWindow(RawHistory[1])
    /\ WellFormedSale(RawHistory[2]) /\ ~InWindow(RawHistory[2])
    /\ InWindow(RawHistory[3])
    /\ out.sales = 2
    /\ Len(out.recent_sales_prices) = 2
    /\ out.recent_sales_prices[1].price = ParsePrice(RawHistory[1].price).v
    /\ out.recent_sales_prices[2].price = ParsePrice(RawHistory[3].price).v
    /\ out.recent_sales_prices[1].price # out.recent_sales_prices[2].price

\* the record has enough sales for the exception rule and no target price
SalesButNoTargets ==
    /\ HasKey(out, "sales") /\ out.sales >= MIN_SALES_EXCEPTION
    /\ HasKey(out, "target_price_list") /\ out.target_price_list = <<>>
    /\ HasKey(out, "offer_prices_list")

\* C26: a record with sales >= 7, an empty target_price_list and a lowest
\* offer of at least 0.02 is refused by is_good_candidate, has a
\* profit_margin_pair1 of at least 2, is accepted by passes_profit_margin
\* and, alone in its group, is emitted to good; with both lists empty both
\* margins are 1.0 and the record is not a candidate and goes to bad.
C26_OfferOnlyRecordIsCandidate ==
    (pc = "resolved" /\ SalesButNoTargets) =>
        /\ ( (out.offer_prices_list # <<>> /\ out.offer_prices_list[1] >= 2) =>
                /\ ~is_good_candidate(out)
                /\ HasKey(out, "profit_margin_pair1")
                /\ QuotGeq(out.profit_margin_pair1, 200)
                /\ passes_profit_margin(out)
                /\ good_items = <<Projection(out)>>
                /\ bad_items = <<>> )
        /\ ( out.offer_prices_list = <<>> =>
                /\ out.profit_margin_pair1[1] = out.profit_margin_pair1[2]
                /\ out.profit_margin_pair2[1] = out.profit_margin_pair2[2]
                /\ ~is_good_candidate(out)
                /\ ~passes_profit_margin(out)
                /\ good_items = <<>>
                /\ bad_items = <<Projection(out)>> )

\* seven sales, one offer at 0.90 and no target: the record is in good
C26_Witness ==
    /\ pc = "resolved"
    /\ SalesButNoTargets
    /\ out.sales = MIN_SALES_EXCEPTION
    /\ out.offer_prices_list = <<90>>
    /\ out.profit_margin_pair1 = <<90, 1>>
    /\ good_items = <<Projection(out)>>

\* ------------------------------------------------------------------------
\* Properties of the collection loop (specification SpecCollect)
\* ------------------------------------------------------------------------

\* the keys of the items handed to save_item_data so far
SavedKeys == {<<save_calls[i].name, save_calls[i].wear>> : i \in 1..Len(save_calls)}

\* how many times save_item_data was called for the key
SavesOf(k) ==
    Cardinality({i \in 1..Len(save_calls) :
                    <<save_calls[i].name, save_calls[i].wear>> = k})

\* the latest call read a key that had been saved before the call
LaterCallOfSavedKey ==
    /\ last.key \in SavedKeys
    /\ last.result # "item_data"

\* C27 as stated: save_item_data is called at most once for each key, and a
\* later call of fetch_item_data that reads a key already returned raises
\* DuplicateItemError.
C27_LaterCallsRaiseDuplicate ==
    /\ \A k \in SavedKeys : SavesOf(k) = 1
    /\ LaterCallOfSavedKey => last.result = "DuplicateItemError"

\* C27, amended: save_item_data is called at most once for each key, and a
\* later call of fetch_item_data that reads a key already returned hands
\* back no data: it raises DuplicateItemError, or DataFetchError when the
\* Close button of the modal cannot be clicked.
C27_LaterCallsReturnNoData ==
    /\ \A k \in SavedKeys : SavesOf(k) = 1
    /\ \A k \in SavedKeys : k \in processed_items
    /\ LaterCallOfSavedKey =>
          \/ last.result = "DuplicateItemError" /\ last.at = "duplicate"
          \/ last.result = "DataFetchError" /\ last.at = "duplicate_close"

\* item 1 was saved, and the element after it shows the same item spelled
\* without the space: the call raises DuplicateItemError, nothing is saved
C27_Witness ==
    /\ last.index = 2
    /\ last.key = parse_item_name_and_wear(TightTitle(1))
    /\ last.result = "DuplicateItemError"
    /\ SavesOf(last.key) = 1
    /\ processed_count = 1

\* the step is a call of fetch_item_data
IsFetchStep == total_index' = total_index + 1

\* C28: the key is in processed_items when a step after the duplicate test
\* fails with DataFetchError, and no key ever leaves processed_items; a key
\* that is marked and was not saved is never saved, and every later call
\* that reads it ends in the duplicate branch without data.
C28_FailedKeyStaysMarked ==
    [][ /\ processed_items \subseteq processed_items'
        /\ \A k \in processed_items \ SavedKeys : k \notin SavedKeys'
        /\ (IsFetchStep /\ last'.at \in StepsAfterKey) =>
              /\ last'.result = "DataFetchError"
              /\ last'.key \in processed_items'
              /\ last'.key \notin SavedKeys'
        /\ (IsFetchStep /\ last'.key \in processed_items \ SavedKeys) =>
              /\ last'.at \in {"duplicate", "duplicate_close"}
              /\ last'.result # "item_data"
              /\ save_calls' = save_calls
      ]_vars

\* the first item failed while its target prices were fetched; a later
\* element showed it again and was turned away as a duplicate, other items
\* were saved and the failed one was not
C28_Witness ==
    /\ last.key = parse_item_name_and_wear(Title(1))
    /\ last.result = "DuplicateItemError"
    /\ last.index = 3
    /\ last.key \in processed_items
    /\ last.key \notin SavedKeys
    /\ processed_count = 1

\* C29: processed_count is the number of save_item_data calls; a duplicate,
\* a fetch error or a scroll leaves it unchanged; total_index goes up by one
\* with each element visited, the element at that position, and stays
\* within the master list; the loop completes only with processed_count = 90.
C29_LoopCounters ==
    /\ [](/\ processed_count = Len(save_calls)
          /\ total_index <= Len(master_items)
          /\ last.index = total_index
          /\ pc = "completed" => processed_count = TargetCount)
    /\ [][ /\ total_index' \in {total_index, total_index + 1}
           /\ IsFetchStep =>
                 /\ last'.index = total_index + 1
                 /\ master_items'[last'.index] = master_items[total_index + 1]
                 /\ processed_count' =
                       IF last'.result = "item_data"
                       THEN processed_count + 1 ELSE processed_count
           /\ ~IsFetchStep => processed_count' = processed_count /\ last' = last
         ]_vars

\* the loop completed after 90 saves, having passed over two elements
C29_Witness ==
    /\ pc = "completed"
    /\ processed_count = TargetCount
    /\ Len(save_calls) = TargetCount
    /\ total_index = TargetCount + 2

====
